---- MODULE Spec2Model ----
(***************************************************************************)
(* Model of msticpy/context/ip_utils.py: address classification            *)
(* (get_ip_type), cached WHOIS resolution (get_whois_info under            *)
(* functools.lru_cache), table enrichment (get_whois_df) and entity        *)
(* construction (convert_to_ip_entities).                                  *)
(***************************************************************************)
EXTENDS Integers, Sequences, FiniteSets, TLC

VARIABLES
    cl,            \* get_ip_type: the call's arguments and its outcome
    cache,         \* lru_cache of get_whois_info: entries, least recently used first
    nlookups,      \* per address: IPWhois(...).lookup_whois() invocations so far
    first,         \* per address: what the first completed get_whois_info call returned
    last,          \* the last get_whois_info call: arguments, outcome, lookup done or not
    ncalls,        \* number of get_whois_info calls made
    bld,           \* convert_to_ip_entities: locals of the running call
    df             \* get_whois_df: arguments, per-row progress and the returned table

vars == <<cl, cache, nlookups, first, last, ncalls, bld, df>>

(***************************************************************************)
(* Values.  A Python string holding an address is modelled by its text     *)
(* name together with what ipaddress.ip_address makes of it: whether it    *)
(* parses, and which scope predicates hold of the parsed address.          *)
(***************************************************************************)
Preds == {"is_multicast", "is_global", "is_loopback", "is_link_local",
          "is_unspecified", "is_private", "is_reserved"}

Str(name, parses, preds) == [name |-> name, parses |-> parses, preds |-> preds]

None == Str("None", FALSE, {})
Empty == Str("", FALSE, {})

\* Python truthiness of an Optional[str]: None and "" are falsy.
Truthy(s) == s.name \notin {"None", ""}

\* Python `a or b`.
Or(a, b) == IF Truthy(a) THEN a ELSE b

Return(v) == [kind |-> "return", value |-> v]
Raise(e) == [kind |-> "raise", value |-> e]

(***************************************************************************)
(* get_ip_type (lines 107-149).                                            *)
(***************************************************************************)
\* ipaddress.ip_address(ip_str) raises ValueError (line 130-131).
ip_address_fails(s) == ~s.parses

\* line 132: the diagnostic printed when the string does not parse.
get_ip_type_prints(ip, ip_str) ==
    LET s == Or(ip, ip_str) IN Truthy(s) /\ ip_address_fails(s)

\* A slip in the order of the tests: private tested before loopback.
get_ip_type_private_first(ip, ip_str) ==
    LET s == Or(ip, ip_str) IN
    IF ~Truthy(s) THEN Raise("ValueError")
    ELSE IF ip_address_fails(s) THEN Return("Unspecified")
    ELSE IF "is_multicast" \in s.preds THEN Return("Multicast")
    ELSE IF "is_global" \in s.preds THEN Return("Public")
    ELSE IF "is_private" \in s.preds THEN Return("Private")
    ELSE IF "is_loopback" \in s.preds THEN Return("Loopback")
    ELSE IF "is_link_local" \in s.preds THEN Return("Link Local")
    ELSE IF "is_unspecified" \in s.preds THEN Return("Unspecified")
    ELSE IF "is_reserved" \in s.preds THEN Return("Reserved")
    ELSE Return("Unspecified")

\* A slip in the parse-failure path: the ValueError of ip_address is not caught.
get_ip_type_parse_raises(ip, ip_str) ==
    LET s == Or(ip, ip_str) IN
    IF ~Truthy(s) THEN Raise("ValueError")
    ELSE IF ip_address_fails(s) THEN Raise("ValueError")
    ELSE IF "is_multicast" \in s.preds THEN Return("Multicast")
    ELSE IF "is_global" \in s.preds THEN Return("Public")
    ELSE IF "is_loopback" \in s.preds THEN Return("Loopback")
    ELSE IF "is_link_local" \in s.preds THEN Return("Link Local")
    ELSE IF "is_unspecified" \in s.preds THEN Return("Unspecified")
    ELSE IF "is_private" \in s.preds THEN Return("Private")
    ELSE IF "is_reserved" \in s.preds THEN Return("Reserved")
    ELSE Return("Unspecified")

get_ip_type(ip, ip_str) ==
    LET s == Or(ip, ip_str) IN
    IF ~Truthy(s) THEN Raise("ValueError")
    ELSE IF ip_address_fails(s) THEN Return("Unspecified")
    ELSE IF "is_multicast" \in s.preds THEN Return("Multicast")
    ELSE IF "is_global" \in s.preds THEN Return("Public")
    ELSE IF "is_loopback" \in s.preds THEN Return("Loopback")
    ELSE IF "is_link_local" \in s.preds THEN Return("Link Local")
    ELSE IF "is_unspecified" \in s.preds THEN Return("Unspecified")
    ELSE IF "is_private" \in s.preds THEN Return("Private")
    ELSE IF "is_reserved" \in s.preds THEN Return("Reserved")
    ELSE Return("Unspecified")

\* The strings get_ip_type can return.
IpTypes == {"Multicast", "Public", "Loopback", "Link Local", "Unspecified",
            "Private", "Reserved"}

(***************************************************************************)
(* Specification SpecClassify: one get_ip_type call on every kind of       *)
(* argument: absent, empty, unparseable, and parseable with every          *)
(* combination of the seven scope predicates.                              *)
(***************************************************************************)
ClassifyStrings ==
    {None, Empty, Str("not-an-ip", FALSE, {})}
        \cup {Str("ip", TRUE, P) : P \in SUBSET Preds}

\* The alias argument ip_str is only read when ip is falsy.
ClassifyAliases == {None, Empty, Str("not-an-ip", FALSE, {}),
                    Str("ip", TRUE, {"is_loopback", "is_private"})}

ClassifyArgs ==
    {a \in [ip : ClassifyStrings, ip_str : ClassifyAliases] :
        Truthy(a.ip) => a.ip_str = None}

Idle == [pc |-> "idle"]

InitClassify ==
    /\ cl \in {[pc |-> "call", ip |-> a.ip, ip_str |-> a.ip_str,
                out |-> Return("pending"), printed |-> FALSE] : a \in ClassifyArgs}
    /\ cache = << >>
    /\ nlookups = << >>
    /\ first = << >>
    /\ last = Idle
    /\ ncalls = 0
    /\ bld = Idle
    /\ df = Idle

Classify ==
    /\ cl.pc = "call"
    /\ cl' = [cl EXCEPT !.pc = "done",
                        !.out = get_ip_type(cl.ip, cl.ip_str),
                        !.printed = get_ip_type_prints(cl.ip, cl.ip_str)]
    /\ UNCHANGED <<cache, nlookups, first, last, ncalls, bld, df>>

NextClassify == Classify

SpecClassify == InitClassify /\ [][NextClassify]_vars

\* The argument get_ip_type works on: `ip or ip_str` (line 126).
ClassifiedString == Or(cl.ip, cl.ip_str)

\* The order of the tests the classification is specified to follow.
PriorityOrder ==
    << <<"is_multicast", "Multicast">>, <<"is_global", "Public">>,
       <<"is_loopback", "Loopback">>, <<"is_link_local", "Link Local">>,
       <<"is_unspecified", "Unspecified">>, <<"is_private", "Private">>,
       <<"is_reserved", "Reserved">> >>

RECURSIVE FirstMatch(_, _)
FirstMatch(preds, i) ==
    IF i > Len(PriorityOrder) THEN "Unspecified"
    ELSE IF PriorityOrder[i][1] \in preds THEN PriorityOrder[i][2]
    ELSE FirstMatch(preds, i + 1)

\* C4: for an address that parses, get_ip_type returns the category of the
\* first predicate that holds in the order multicast, global, loopback,
\* link-local, unspecified, private, reserved, and Unspecified when none
\* holds, for every combination of predicate truth values.
C4_FirstMatchInOrder ==
    (cl.pc = "done" /\ Truthy(ClassifiedString) /\ ClassifiedString.parses)
        => cl.out = Return(FirstMatch(ClassifiedString.preds, 1))

\* C4 witness: an address that is both loopback and private was classified,
\* and the earlier test (loopback) decided.
C4_Witness ==
    /\ cl.pc = "done"
    /\ ClassifiedString.parses
    /\ {"is_loopback", "is_private"} \subseteq ClassifiedString.preds
    /\ cl.out = Return("Loopback")

\* C5 as stated: for every input string get_ip_type returns exactly one
\* category of the fixed set and never ends in an error.
C5_TotalOnEveryString ==
    (cl.pc = "done" /\ (cl.ip # None \/ cl.ip_str # None))
        => (cl.out.kind = "return" /\ cl.out.value \in IpTypes)

\* C5 amended: for every non-empty input string get_ip_type returns exactly
\* one category of the fixed set and never ends in an error, a non-empty
\* string that does not parse yielding Unspecified; an empty or absent
\* string ends in ValueError.
C5_TotalOnNonEmpty ==
    cl.pc = "done" =>
        /\ Truthy(ClassifiedString) =>
              /\ cl.out.kind = "return"
              /\ cl.out.value \in IpTypes
              /\ (~ClassifiedString.parses => cl.out.value = "Unspecified")
        /\ ~Truthy(ClassifiedString) => cl.out = Raise("ValueError")

\* C5 witness: a non-empty string that does not parse was classified as
\* Unspecified, with the diagnostic printed.
C5_Witness ==
    /\ cl.pc = "done"
    /\ ClassifiedString.name = "not-an-ip"
    /\ cl.out = Return("Unspecified")
    /\ cl.printed

(***************************************************************************)
(* The external WHOIS client, IPWhois(ip_str).lookup_whois().  A lookup    *)
(* either returns a record (a dict, modelled as a set of <<field, value>>  *)
(* pairs) or raises one of the error kinds the module imports from         *)
(* ipwhois.  Which of the two happens is the network's choice, made anew   *)
(* at every lookup.                                                        *)
(***************************************************************************)
LookupErrors ==
    {"ASNRegistryError", "HostLookupError", "HTTPLookupError",
     "HTTPRateLimitError", "WhoisLookupError", "WhoisRateLimitError"}

WhoisRecords ==
    { {<<"asn_description", "GOOGLE">>, <<"asn", "15169">>},
      {<<"asn_description", "CLOUDFLARENET">>, <<"asn_cidr", "1.1.1.0/24">>} }

ClientOutcomes ==
    {Return(r) : r \in WhoisRecords} \cup {Raise(e) : e \in LookupErrors}

\* dict helpers
Keys(d) == {p[1] : p \in d}
Get(d, k) == (CHOOSE p \in d : p[1] = k)[2]
EmptyDict == {}

(***************************************************************************)
(* get_whois_info (lines 158-205), the function under the decorator.       *)
(* A summary string is modelled as the sequence of the fragments that the  *)
(* f-string joins.                                                         *)
(***************************************************************************)
\* A slip in the except clause: one of the rate-limit errors is not listed.
CaughtErrors_without_rate_limit ==
    {"HTTPLookupError", "HTTPRateLimitError", "HostLookupError",
     "WhoisLookupError", "ASNRegistryError"}

\* The except clause of lines 196-203.
CaughtErrors ==
    {"HTTPLookupError", "HTTPRateLimitError", "HostLookupError",
     "WhoisLookupError", "WhoisRateLimitError", "ASNRegistryError"}

Result(out, looked_up) == [out |-> out, looked_up |-> looked_up]

\* A slip in the type test: every type but Private is looked up.
get_whois_info_not_private(ip, show_progress, ip_str, client) ==
    LET s == Or(ip, ip_str) IN
    IF ~Truthy(s) THEN Result(Raise("ValueError"), FALSE)
    ELSE LET ip_type == get_ip_type(s, None) IN
         IF ip_type.kind = "raise" THEN Result(ip_type, FALSE)
         ELSE IF ip_type.value # "Private" THEN
             IF client.kind = "return"
             THEN Result(Return(<< <<Get(client.value, "asn_description")>>,
                                   client.value >>), TRUE)
             ELSE IF client.value \in CaughtErrors
             THEN Result(Return(<< <<"Error during lookup of ", s.name, " ",
                                     client.value>>, EmptyDict >>), TRUE)
             ELSE Result(Raise(client.value), TRUE)
         ELSE Result(Return(<< <<"No ASN Information for IP type: ",
                                 ip_type.value>>, EmptyDict >>), FALSE)

\* `client` is what the WHOIS client does if this call reaches line 191-192.
get_whois_info(ip, show_progress, ip_str, client) ==
    LET s == Or(ip, ip_str) IN
    IF ~Truthy(s) THEN Result(Raise("ValueError"), FALSE)
    ELSE LET ip_type == get_ip_type(s, None) IN
         IF ip_type.kind = "raise" THEN Result(ip_type, FALSE)
         ELSE IF ip_type.value = "Public" THEN
             IF client.kind = "return"
             THEN Result(Return(<< <<Get(client.value, "asn_description")>>,
                                   client.value >>), TRUE)
             ELSE IF client.value \in CaughtErrors
             THEN Result(Return(<< <<"Error during lookup of ", s.name, " ",
                                     client.value>>, EmptyDict >>), TRUE)
             ELSE Result(Raise(client.value), TRUE)
         ELSE Result(Return(<< <<"No ASN Information for IP type: ",
                                 ip_type.value>>, EmptyDict >>), FALSE)

(***************************************************************************)
(* @lru_cache(maxsize=1024) (line 157).  The key is made of all the call's *)
(* arguments.  The cache is a sequence of entries, least recently used     *)
(* first.  maxsize is scaled down so that a full cache is within reach.    *)
(***************************************************************************)
maxsize == 2

make_key(ip, show_progress, ip_str) ==
    [ip |-> ip, show_progress |-> show_progress, ip_str |-> ip_str]

CacheKeys(c) == {c[i].key : i \in DOMAIN c}

CacheIndex(c, key) == CHOOSE i \in DOMAIN c : c[i].key = key

Remove(c, i) == SubSeq(c, 1, i - 1) \o SubSeq(c, i + 1, Len(c))

\* A slip in the eviction: a full cache is emptied instead of losing its oldest entry.
lru_store_clears(c, entry) ==
    IF Len(c) >= maxsize THEN <<entry>> ELSE Append(c, entry)

\* A miss stores its result; a full cache loses its least recently used entry.
lru_store(c, entry) ==
    IF Len(c) >= maxsize THEN Append(Tail(c), entry) ELSE Append(c, entry)

\* A call of the decorated function: [cache, out, looked_up, hit].
lru_cache_call(c, ip, show_progress, ip_str, client) ==
    LET key == make_key(ip, show_progress, ip_str) IN
    IF key \in CacheKeys(c)
    THEN LET i == CacheIndex(c, key) IN
         [cache |-> Append(Remove(c, i), c[i]), out |-> Return(c[i].value),
          looked_up |-> FALSE, hit |-> TRUE]
    ELSE LET r == get_whois_info(ip, show_progress, ip_str, client) IN
         [cache |-> IF r.out.kind = "raise" THEN c
                    ELSE lru_store(c, [key |-> key, value |-> r.out.value]),
          out |-> r.out, looked_up |-> r.looked_up, hit |-> FALSE]

(***************************************************************************)
(* A sequence of get_whois_info calls.  The call's arguments are drawn     *)
(* from `args`, what the WHOIS client does (if it is reached) from         *)
(* `outcomes`; at most `limit` calls are made.                             *)
(***************************************************************************)
Pub1 == Str("8.8.8.8", TRUE, {"is_global"})
Pub2 == Str("1.1.1.1", TRUE, {"is_global"})
Priv == Str("10.0.0.5", TRUE, {"is_private"})
Loop == Str("127.0.0.1", TRUE, {"is_loopback", "is_private"})
NotAnIp == Str("not-an-ip", FALSE, {})

AllStrings == {Pub1, Pub2, Priv, Loop, NotAnIp, Empty, None}
Names == {s.name : s \in AllStrings}

NoLookups == [n \in Names |-> 0]
NoResults == [n \in Names |-> {}]

InitWhois ==
    /\ cl = Idle
    /\ cache = << >>
    /\ nlookups = NoLookups
    /\ first = NoResults
    /\ last = Idle
    /\ ncalls = 0
    /\ bld = Idle
    /\ df = Idle

\* The bookkeeping of one call's outcome on the address named n.
Lookups(counts, n, looked_up) ==
    IF looked_up THEN [counts EXCEPT ![n] = @ + 1] ELSE counts

Firsts(f, n, out) ==
    IF out.kind = "return" /\ f[n] = {} THEN [f EXCEPT ![n] = {out.value}] ELSE f

NotCalled == Raise("client not called")

Call(args, outcomes, limit) ==
    \E a \in args, client \in outcomes :
        LET r == lru_cache_call(cache, a.ip, a.show_progress, a.ip_str, client)
            s == Or(a.ip, a.ip_str)
        IN  /\ ncalls < limit
            /\ ncalls' = ncalls + 1
            /\ cache' = r.cache
            /\ nlookups' = Lookups(nlookups, s.name, r.looked_up)
            /\ first' = Firsts(first, s.name, r.out)
            /\ last' = [pc |-> "done", ip |-> a.ip, ip_str |-> a.ip_str,
                        show_progress |-> a.show_progress, s |-> s,
                        out |-> r.out, looked_up |-> r.looked_up, hit |-> r.hit,
                        client |-> IF r.looked_up THEN client ELSE NotCalled]
            /\ UNCHANGED <<cl, bld, df>>

(***************************************************************************)
(* Specification SpecWhois: calls on every kind of address, the WHOIS      *)
(* client free to return a record or to raise any of its error kinds.      *)
(***************************************************************************)
MaxCalls == 2

\* The address is passed as ip, or through the alias keyword ip_str.
WhoisArgs ==
    {a \in [ip : {Pub1, Pub2, Priv, Loop, NotAnIp, Empty, None},
            show_progress : BOOLEAN, ip_str : {None, Pub1}] :
        Truthy(a.ip) => a.ip_str = None}

GetWhoisInfo == Call(WhoisArgs, ClientOutcomes, MaxCalls)

NextWhois == GetWhoisInfo

SpecWhois == InitWhois /\ [][NextWhois]_vars

\* The classification of the address of the last call.
LastType == get_ip_type(last.s, None)

Contains(summary, fragment) == \E i \in DOMAIN summary : summary[i] = fragment

\* C1: two calls made with the same public address perform at most one
\* external WHOIS lookup in total and both return the identical
\* (summary, record) tuple, whether the first lookup succeeded or failed.
C1_OneLookupPerAddress ==
    \A s \in {Pub1, Pub2} :
        /\ nlookups[s.name] <= 1
        /\ (last.pc = "done" /\ last.s = s /\ last.out.kind = "return")
              => first[s.name] = {last.out.value}

\* C2: a call on an address whose classification is not Public never
\* invokes the WHOIS client, and returns a summary containing the
\* classified type together with an empty record.
C2_NonPublicNoLookup ==
    /\ \A s \in AllStrings :
          (Truthy(s) /\ get_ip_type(s, None).value # "Public")
              => nlookups[s.name] = 0
    /\ (last.pc = "done" /\ Truthy(last.s) /\ LastType.value # "Public") =>
          /\ ~last.looked_up
          /\ last.out.kind = "return"
          /\ Contains(last.out.value[1], LastType.value)
          /\ last.out.value[2] = EmptyDict

\* C2 witness: a call on the private address 10.0.0.5 has returned.
C2_Witness ==
    /\ last.pc = "done"
    /\ last.s = Priv
    /\ ~last.hit
    /\ last.out = Return(<< <<"No ASN Information for IP type: ", "Private">>,
                            EmptyDict >>)

\* C3: for a public address, whatever error kind the WHOIS client raises,
\* the call does not raise: it returns a summary embedding the address and
\* the error kind, and an empty record.
C3_LookupFailureIsData ==
    (last.pc = "done" /\ Truthy(last.s) /\ LastType.value = "Public") =>
        /\ last.out.kind = "return"
        /\ (last.looked_up /\ last.client.kind = "raise") =>
              /\ Contains(last.out.value[1], last.s.name)
              /\ Contains(last.out.value[1], last.client.value)
              /\ last.out.value[2] = EmptyDict

\* C3 witness: the WHOIS client raised a rate-limit error for 8.8.8.8 and
\* the call returned.
C3_Witness ==
    /\ last.pc = "done"
    /\ last.s = Pub1
    /\ last.looked_up
    /\ last.client = Raise("WhoisRateLimitError")
    /\ last.out.kind = "return"

(***************************************************************************)
(* Specification SpecCache: longer sequences of calls on fewer inputs, so  *)
(* that the cache fills up.                                                *)
(***************************************************************************)
MaxCacheCalls == 4

CacheArgs ==
    [ip : {Pub1, Pub2, Priv}, show_progress : BOOLEAN, ip_str : {None}]

CacheOutcomes ==
    {Return({<<"asn_description", "GOOGLE">>, <<"asn", "15169">>}),
     Raise("HTTPLookupError")}

GetWhoisInfoCached == Call(CacheArgs, CacheOutcomes, MaxCacheCalls)

NextCache == GetWhoisInfoCached

SpecCache == InitWhois /\ [][NextCache]_vars

\* C10 as stated: once a result is stored for a key, that entry stays in
\* the cache after any number of later calls with other keys.
C10_NoEviction == [][CacheKeys(cache) \subseteq CacheKeys(cache')]_vars

\* C10 amended: the cache never holds more than maxsize entries; a stored
\* entry stays in the cache across later calls, except that a call which
\* stores a new key in a full cache removes the least recently used entry,
\* and only that one.
C10_EvictsOnlyLeastRecentlyUsed ==
    [][/\ Len(cache') <= maxsize
       /\ \A k \in CacheKeys(cache) \ CacheKeys(cache') :
             /\ Len(cache) = maxsize
             /\ k = cache[1].key
             /\ CacheKeys(cache') \ CacheKeys(cache) # {}
       /\ \A i \in DOMAIN cache :
             cache[i].key \in CacheKeys(cache')
                 => cache'[CacheIndex(cache', cache[i].key)].value = cache[i].value]_vars

\* C10 witness: the cache is full and the result once stored for some
\* address is no longer in it.
C10_Witness ==
    /\ Len(cache) = maxsize
    /\ \E s \in {Pub1, Pub2, Priv} :
          /\ first[s.name] # {}
          /\ \A k \in CacheKeys(cache) : k.ip # s

(***************************************************************************)
(* convert_to_ip_entities (lines 40-102).  Here a string is the sequence   *)
(* of its lexemes: the text of an address, a comma, or a blank.  An        *)
(* element of addrs is a list of strings or a string.                      *)
(***************************************************************************)
ListCell(items) == [kind |-> "list", items |-> items]
StrCell(chars) == [kind |-> "str", chars |-> chars]

\* str.strip(): leading and trailing blanks removed.
RECURSIVE lstrip(_)
lstrip(chars) ==
    IF chars # << >> /\ Head(chars) = " " THEN lstrip(Tail(chars)) ELSE chars

RECURSIVE rstrip(_)
rstrip(chars) ==
    IF chars # << >> /\ chars[Len(chars)] = " "
    THEN rstrip(SubSeq(chars, 1, Len(chars) - 1)) ELSE chars

strip(chars) == rstrip(lstrip(chars))

\* str.split(","): the pieces between the commas, as a sequence of strings.
RECURSIVE split(_, _)
split(chars, piece) ==
    IF chars = << >> THEN <<piece>>
    ELSE IF Head(chars) = "," THEN <<piece>> \o split(Tail(chars), << >>)
    ELSE split(Tail(chars), Append(piece, Head(chars)))

Range(seq) == {seq[i] : i \in DOMAIN seq}

\* lines 90-95: the set of address strings of one element of addrs.
ip_list_of(addr) ==
    IF addr.kind = "list" THEN Range(addr.items)
    ELSE IF "," \in Range(addr.chars)
    THEN {strip(piece) : piece \in Range(split(addr.chars, << >>))}
    ELSE {addr.chars}

\* A slip in line 96: the addresses already seen are not removed.
new_ips_keeps_seen(ip_list, all_ips) == ip_list

\* line 96: ip_list - all_ips.
new_ips(ip_list, all_ips) == ip_list \ all_ips

\* The orders in which a set can be iterated (line 97 iterates a set).
Orders(S) ==
    {f \in [1..Cardinality(S) -> S] : \A i, j \in DOMAIN f : f[i] = f[j] => i = j}

\* IpAddress(Address=ip)
IpAddress(ip) == [Address |-> ip]

\* lines 99-101: lookup_ip is called on every entity of ip_entities, in order;
\* a call is recorded as the position of its entity in ip_entities.
geo_lookups(ip_entities) == [i \in 1..Len(ip_entities) |-> i]

(***************************************************************************)
(* Specification SpecBuild: one convert_to_ip_entities call, the loop of   *)
(* line 89 taken one element of addrs at a time.                           *)
(***************************************************************************)
MaxBatches == 3

Cells ==
    {StrCell(<<"1.1.1.1">>), StrCell(<<"2.2.2.2">>), StrCell(<<"1.1.1.1", " ">>),
     StrCell(<<"1.1.1.1", ",", " ", "2.2.2.2">>),
     StrCell(<<"2.2.2.2", ",", "2.2.2.2", " ">>),
     StrCell(<<"3.3.3.3", ",">>),
     ListCell(<<<<"1.1.1.1">>, <<"3.3.3.3">>>>),
     ListCell(<<<<"2.2.2.2">>, <<"2.2.2.2">>>>)}

InitBuild ==
    /\ cl = Idle
    /\ cache = << >>
    /\ nlookups = << >>
    /\ first = << >>
    /\ last = Idle
    /\ ncalls = 0
    /\ bld = Idle
    /\ df = Idle

\* lines 79-87: the locals are set up; with neither ip_str nor data and
\* ip_col given the call ends in ValueError.
BuildStart ==
    /\ bld.pc = "idle"
    /\ \E geo_lookup \in BOOLEAN, given \in {"ip_str", "data", "neither"} :
          bld' = [pc |-> IF given = "neither" THEN "raised" ELSE "loop",
                  given |-> given, geo_lookup |-> geo_lookup,
                  ip_entities |-> << >>, all_ips |-> {}, lookups |-> << >>,
                  seen |-> {}, repeated |-> FALSE, n |-> 0]
    /\ UNCHANGED <<cl, cache, nlookups, first, last, ncalls, df>>

\* lines 89-101: one iteration of the loop over addrs.
BuildBatch ==
    /\ bld.pc = "loop"
    /\ bld.n < MaxBatches
    /\ \E addr \in Cells :
          LET ip_list == new_ips(ip_list_of(addr), bld.all_ips) IN
          \E order \in Orders(ip_list) :
              LET ip_entities ==
                      bld.ip_entities \o [i \in DOMAIN order |-> IpAddress(order[i])]
              IN  bld' = [bld EXCEPT
                      !.ip_entities = ip_entities,
                      !.all_ips = @ \cup ip_list,
                      !.lookups = IF bld.geo_lookup
                                  THEN @ \o geo_lookups(ip_entities) ELSE @,
                      !.seen = @ \cup ip_list_of(addr),
                      !.repeated = @ \/ (ip_list_of(addr) \cap bld.seen # {}),
                      !.n = @ + 1]
    /\ UNCHANGED <<cl, cache, nlookups, first, last, ncalls, df>>

\* line 102: addrs is exhausted and ip_entities is returned.
BuildReturn ==
    /\ bld.pc = "loop"
    /\ bld.given = "ip_str" => bld.n >= 1
    /\ bld' = [bld EXCEPT !.pc = "done"]
    /\ UNCHANGED <<cl, cache, nlookups, first, last, ncalls, df>>

NextBuild == BuildStart \/ BuildBatch \/ BuildReturn

SpecBuild == InitBuild /\ [][NextBuild]_vars

\* C6: with geolocation enabled, for any input of one or more batches the
\* geolocation lookup is invoked exactly once for each constructed entity,
\* in the order the entities were constructed.
C6_OneGeoLookupPerEntity ==
    (bld.pc = "done" /\ bld.geo_lookup /\ bld.n >= 1)
        => bld.lookups = [i \in 1..Len(bld.ip_entities) |-> i]

\* C7: the returned list holds exactly one entity for each distinct address
\* string seen, within and across batches, and no address appears in two
\* entities.
C7_OneEntityPerAddress ==
    bld.pc = "done" =>
        /\ {bld.ip_entities[i].Address : i \in DOMAIN bld.ip_entities} = bld.seen
        /\ \A i, j \in DOMAIN bld.ip_entities :
              bld.ip_entities[i].Address = bld.ip_entities[j].Address => i = j

\* C7 witness: a call returned after an address came up again in a later
\* batch.
C7_Witness ==
    /\ bld.pc = "done"
    /\ bld.n >= 2
    /\ bld.repeated
    /\ Len(bld.ip_entities) >= 2

(***************************************************************************)
(* get_whois_df (lines 212-266).  A table is its set of column names and   *)
(* the sequence of its rows, a row a function from column names to cells.  *)
(***************************************************************************)
Table(columns, rows) == [columns |-> columns, rows |-> rows]

NaN == "NaN"

\* One row of DataFrame.apply(..., axis=1): the lambda of lines 250, 257
\* and 263 calls get_whois_info(x[ip_column], show_progress=show_progress).
apply_row(c, row, ip_column, show_progress, client) ==
    lru_cache_call(c, row[ip_column], show_progress, None, client)

\* result_type="expand" on dicts (lines 249-253): a table of the dicts'
\* fields only, a cell missing from a row's dict being NaN.
expand_dicts(records) ==
    LET fields == UNION {Keys(records[i]) : i \in DOMAIN records} IN
    Table(fields,
          [i \in DOMAIN records |->
              [f \in fields |-> IF f \in Keys(records[i])
                                THEN Get(records[i], f) ELSE NaN]])

\* data[cols] = values on a copy of data (lines 254-265): the columns are
\* added, or overwritten where data has them already.
assign(data, cols, values) ==
    Table(data.columns \cup DOMAIN cols,
          [i \in DOMAIN data.rows |->
              [c \in data.columns \cup DOMAIN cols |->
                  IF c \in DOMAIN cols THEN values[i][cols[c]]
                  ELSE data.rows[i][c]]])

\* What get_whois_df returns once every row's get_whois_info call returned;
\* results[i] is the (summary, record) tuple of row i.
get_whois_df(data, all_columns, asn_col, whois_col, results) ==
    IF all_columns
    THEN expand_dicts([i \in DOMAIN results |-> results[i][2]])
    ELSE IF whois_col # "None"
    THEN assign(data, [c \in {asn_col, whois_col} |->
                          IF c = asn_col THEN 1 ELSE 2], results)
    ELSE assign(data, [c \in {asn_col} |-> 1], results)

(***************************************************************************)
(* Specification SpecDf: one get_whois_df call on a table of one or more   *)
(* rows, apply taken one row at a time, the cache empty at the start.      *)
(***************************************************************************)
MaxRows == 2

DfCells == {Pub1, Pub2, Priv, NotAnIp, Empty}

DfTables ==
    UNION {{Table({"IpAddress", "Source"},
                  [i \in 1..n |-> [c \in {"IpAddress", "Source"} |->
                      IF c = "IpAddress" THEN ips[i] ELSE "sensor"]]) :
               ips \in [1..n -> DfCells]} : n \in 1..MaxRows}

InitDf ==
    /\ cl = Idle
    /\ cache = << >>
    /\ nlookups = NoLookups
    /\ first = NoResults
    /\ last = Idle
    /\ ncalls = 0
    /\ bld = Idle
    /\ df = Idle

DfStart ==
    /\ df.pc = "idle"
    /\ \E data \in DfTables, all_columns \in BOOLEAN, show_progress \in BOOLEAN,
          whois_col \in {"None", "WhoIsData"} :
          df' = [pc |-> "apply", data |-> data, ip_column |-> "IpAddress",
                 all_columns |-> all_columns, asn_col |-> "AsnDescription",
                 whois_col |-> whois_col, show_progress |-> show_progress,
                 calls |-> << >>, out |-> Return("pending")]
    /\ UNCHANGED <<cl, cache, nlookups, first, last, ncalls, bld>>

\* apply reaches the next row; an exception of the row's call ends apply
\* and get_whois_df with it.
DfRow ==
    /\ df.pc = "apply"
    /\ Len(df.calls) < Len(df.data.rows)
    /\ \E client \in ClientOutcomes :
          LET row == df.data.rows[Len(df.calls) + 1]
              r == apply_row(cache, row, df.ip_column, df.show_progress, client)
              s == row[df.ip_column]
              call == [s |-> s, out |-> r.out, looked_up |-> r.looked_up,
                       hit |-> r.hit,
                       client |-> IF r.looked_up THEN client ELSE NotCalled]
          IN  /\ cache' = r.cache
              /\ nlookups' = Lookups(nlookups, s.name, r.looked_up)
              /\ first' = Firsts(first, s.name, r.out)
              /\ ncalls' = ncalls + 1
              /\ df' = IF r.out.kind = "raise"
                       THEN [df EXCEPT !.pc = "raised", !.calls = Append(@, call),
                                       !.out = r.out]
                       ELSE [df EXCEPT !.calls = Append(@, call)]
    /\ UNCHANGED <<cl, last, bld>>

\* every row's call returned: the table is put together and returned.
DfReturn ==
    /\ df.pc = "apply"
    /\ Len(df.calls) = Len(df.data.rows)
    /\ df' = [df EXCEPT
                 !.pc = "done",
                 !.out = Return(get_whois_df(df.data, df.all_columns, df.asn_col,
                                             df.whois_col,
                                             [i \in DOMAIN df.calls |->
                                                 df.calls[i].out.value]))]
    /\ UNCHANGED <<cl, cache, nlookups, first, last, ncalls, bld>>

NextDf == DfStart \/ DfRow \/ DfReturn

SpecDf == InitDf /\ [][NextDf]_vars

\* The columns a mode is specified to add to the input table.
AddedColumns ==
    IF df.all_columns
    THEN UNION {Keys(df.calls[i].out.value[2]) : i \in DOMAIN df.calls}
    ELSE IF df.whois_col # "None" THEN {df.asn_col, df.whois_col}
    ELSE {df.asn_col}

\* C8: in every mode, expand mode included, the returned table is the input
\* table plus the added columns: every input column is still present, and
\* the added columns are the summary column, the summary and record
\* columns, or one column per WHOIS record field seen across the rows.
C8_InputPlusAddedColumns ==
    df.pc = "done" =>
        /\ df.data.columns \subseteq df.out.value.columns
        /\ df.out.value.columns = df.data.columns \cup AddedColumns

\* C9 as stated: a get_whois_df call over N rows never aborts because of a
\* row's address: every row's failure becomes a summary string and an
\* empty record, and all N rows are processed.
C9_NeverAborts ==
    /\ df.pc # "raised"
    /\ df.pc = "done" => Len(df.calls) = Len(df.data.rows)

\* The address of a row is not public, or its lookup raised.
RowFailed(call) ==
    \/ get_ip_type(call.s, None).value # "Public"
    \/ call.client.kind = "raise" /\ call.client # NotCalled

\* C9 amended: a get_whois_df call aborts only at a row whose address is
\* empty or absent, with ValueError; each row before it, and every row of a
\* call that returns, has been processed, and a row whose address does not
\* parse, is not public, or whose lookup raised has a summary string and an
\* empty record as its result.
C9_AbortsOnlyOnEmptyAddress ==
    /\ df.pc = "raised" =>
          /\ ~Truthy(df.calls[Len(df.calls)].s)
          /\ df.out = Raise("ValueError")
    /\ df.pc = "done" => Len(df.calls) = Len(df.data.rows)
    /\ df.pc \in {"apply", "raised", "done"} =>
          \A i \in DOMAIN df.calls :
              (Truthy(df.calls[i].s) /\ RowFailed(df.calls[i])) =>
                  /\ df.calls[i].out.kind = "return"
                  /\ df.calls[i].out.value[1][1] \in
                        {"No ASN Information for IP type: ", "Error during lookup of "}
                  /\ df.calls[i].out.value[2] = EmptyDict

\* C9 witness: a call over two rows returned, one row holding a string
\* that is no address and one a public address whose lookup raised.
C9_Witness ==
    /\ df.pc = "done"
    /\ Len(df.calls) = 2
    /\ \E i \in DOMAIN df.calls : df.calls[i].s = NotAnIp
    /\ \E i \in DOMAIN df.calls :
          /\ df.calls[i].looked_up
          /\ df.calls[i].client.kind = "raise"

====
